---- MODULE Spec2Model ----
(***************************************************************************)
(* Path-group middleware (syltek/traefik-add-path-group-middleware).       *)
(*                                                                         *)
(* A string is a sequence of characters; a character is a one-rune string  *)
(* ("a", "7", "-", ...).  The rune "U+00E9" stands for a non-ASCII rune    *)
(* that takes two bytes in UTF-8, "\n" for the newline.  The empty string  *)
(* is the empty sequence << >>.                                            *)
(***************************************************************************)
EXTENDS Integers, Sequences, FiniteSets

(***************************************************************************)
(* Bounds of the model.                                                    *)
(***************************************************************************)
\* longest run of ASCII digits given as a segment
MaxDigits == 27
\* most prefixes stacked in front of one identifier ("usr:usr_<id>")
MaxPrefixes == 2
\* most segments of a path built from the short segments
MaxSegs == 2
\* longest run of consecutive slashes in a path
MaxSlashes == 2
\* most requests one handler serves at the same time
MaxRequests == 2

(***************************************************************************)
(* Characters and the character classes of the patterns.                   *)
(***************************************************************************)
Digit == {"0", "1", "2", "3", "4", "5", "6", "7", "8", "9"}

Lower ==
    {"a", "b", "c", "d", "e", "f", "g", "h", "i", "j", "k", "l", "m",
     "n", "o", "p", "q", "r", "s", "t", "u", "v", "w", "x", "y", "z"}

Upper ==
    {"A", "B", "C", "D", "E", "F", "G", "H", "I", "J", "K", "L", "M",
     "N", "O", "P", "Q", "R", "S", "T", "U", "V", "W", "X", "Y", "Z"}

\* [0-9a-fA-F]
HexChar == Digit \cup {"a", "b", "c", "d", "e", "f", "A", "B", "C", "D", "E", "F"}

\* [0-9A-HJ-NP-TV-Za-hj-np-tv-z]
UlidChar == Digit \cup ((Upper \cup Lower) \ {"I", "O", "U", "i", "o", "u"})

\* [a-z0-9]
LowerAlnum == Lower \cup Digit

\* [a-zA-Z0-9]
Alnum == Lower \cup Upper \cup Digit

\* [A-Za-z0-9_-]
UrlSafe == Alnum \cup {"_", "-"}

\* \w
WordChar == Alnum \cup {"_"}

\* bytes of the UTF-8 encoding of one rune
RuneLen(c) == IF c = "U+00E9" THEN 2 ELSE 1

(***************************************************************************)
(* String helpers of the Go runtime used by the code.                      *)
(***************************************************************************)
\* len(s): the number of bytes of s
ByteLen(s) == Len(s) + Cardinality({i \in DOMAIN s : RuneLen(s[i]) = 2})

\* strings.Index(s, c) for a one-character c: 0-based place of the first c, -1 if none
Index(s, c) ==
    IF \E i \in DOMAIN s : s[i] = c
    THEN (CHOOSE i \in DOMAIN s : s[i] = c /\ \A j \in 1..(i - 1) : s[j] # c) - 1
    ELSE -1

\* strings.Trim(s, "/")
Trim(s) ==
    IF \A i \in DOMAIN s : s[i] = "/"
    THEN << >>
    ELSE LET first == CHOOSE i \in DOMAIN s :
                          s[i] # "/" /\ \A j \in 1..(i - 1) : s[j] = "/"
             last == CHOOSE i \in DOMAIN s :
                         s[i] # "/" /\ \A j \in (i + 1)..Len(s) : s[j] = "/"
         IN SubSeq(s, first, last)

RECURSIVE Split(_)
\* strings.Split(s, "/"): the pieces between slashes, empty pieces included
Split(s) ==
    LET idx == Index(s, "/")
    IN IF idx < 0
       THEN <<s>>
       ELSE <<SubSeq(s, 1, idx)>> \o Split(SubSeq(s, idx + 2, Len(s)))

RECURSIVE Join(_)
\* strings.Join(elems, "/")
Join(elems) ==
    IF elems = << >> THEN << >>
    ELSE IF Len(elems) = 1 THEN elems[1]
    ELSE elems[1] \o <<"/">> \o Join(Tail(elems))

(***************************************************************************)
(* The ID type labels.                                                     *)
(***************************************************************************)
labelUUID == <<"u", "u", "i", "d">>

labelNumericID == <<"n", "u", "m", "e", "r", "i", "c", "_", "i", "d">>

labelISODate == <<"i", "s", "o", "_", "d", "a", "t", "e">>

labelULID == <<"u", "l", "i", "d">>

labelCUID == <<"c", "u", "i", "d">>

\* labelCUID2 spelled with a separator
labelCUID2Separated == <<"c", "u", "i", "d", "_", "2">>

labelCUID2 == <<"c", "u", "i", "d", "2">>

labelNanoID == <<"n", "a", "n", "o", "i", "d">>

labelFile == <<"f", "i", "l", "e">>

labelSlug == <<"s", "l", "u", "g">>

(***************************************************************************)
(* The compiled patterns, each as the set of strings its regexp matches.   *)
(* ^ and $ are the start and the end of the text (no multi-line flag).     *)
(***************************************************************************)
AllIn(s, class) == \A i \in DOMAIN s : s[i] \in class

\* ^[0-9a-fA-F]{8}-[0-9a-fA-F]{4}-[0-9a-fA-F]{4}-[0-9a-fA-F]{4}-[0-9a-fA-F]{12}$
uuidPattern(s) ==
    /\ Len(s) = 36
    /\ \A i \in 1..36 :
           IF i \in {9, 14, 19, 24} THEN s[i] = "-" ELSE s[i] \in HexChar

\* ^\d+$
numericPattern(s) == Len(s) >= 1 /\ AllIn(s, Digit)

\* \d{2}:\d{2} at places i..i+4 of s
TwoColonTwo(s, i) ==
    /\ s[i] \in Digit /\ s[i + 1] \in Digit
    /\ s[i + 2] = ":"
    /\ s[i + 3] \in Digit /\ s[i + 4] \in Digit

\* (\.\d{1,9})?([Zz]|[+-]\d{2}:\d{2})?$ on the text after the seconds
isoDateTail(r) ==
    \E k \in 0..10 :
        /\ k <= Len(r)
        /\ k # 1
        /\ k >= 2 => (r[1] = "." /\ \A i \in 2..k : r[i] \in Digit)
        /\ LET z == SubSeq(r, k + 1, Len(r))
           IN \/ z = << >>
              \/ Len(z) = 1 /\ z[1] \in {"Z", "z"}
              \/ Len(z) = 6 /\ z[1] \in {"+", "-"} /\ TwoColonTwo(z, 2)

\* ^\d{4}-\d{2}-\d{2}([Tt]\d{2}:\d{2}:\d{2}(\.\d{1,9})?([Zz]|[+-]\d{2}:\d{2})?)?$
isoDatePattern(s) ==
    /\ Len(s) >= 10
    /\ \A i \in 1..10 : IF i \in {5, 8} THEN s[i] = "-" ELSE s[i] \in Digit
    /\ \/ Len(s) = 10
       \/ /\ Len(s) >= 19
          /\ s[11] \in {"T", "t"}
          /\ TwoColonTwo(s, 12)
          /\ s[17] = ":" /\ s[18] \in Digit /\ s[19] \in Digit
          /\ isoDateTail(SubSeq(s, 20, Len(s)))

\* ^[0-9A-HJ-NP-TV-Za-hj-np-tv-z]{26}$
ulidPattern(s) == Len(s) = 26 /\ AllIn(s, UlidChar)

\* ^c[a-z0-9]{24}$
cuidPattern(s) == Len(s) = 25 /\ s[1] = "c" /\ AllIn(s, LowerAlnum)

\* cuid2Pattern taking capital letters too: ^[a-zA-Z][a-zA-Z0-9]{23}$
cuid2PatternAnyCase(s) == Len(s) = 24 /\ s[1] \in Lower \cup Upper /\ AllIn(s, Alnum)

\* ^[a-z][a-z0-9]{23}$
cuid2Pattern(s) == Len(s) = 24 /\ s[1] \in Lower /\ AllIn(s, LowerAlnum)

\* nanoidPattern without the digit it asks for: ^[A-Za-z0-9_-]+$
nanoidPatternNoDigit(s) == Len(s) >= 1 /\ AllIn(s, UrlSafe)

\* ^[A-Za-z0-9_-]*[0-9][A-Za-z0-9_-]*$
nanoidPattern(s) == AllIn(s, UrlSafe) /\ \E i \in DOMAIN s : s[i] \in Digit

\* filePattern with no dot allowed before the extension's: ^[^.]+\.\w{1,15}$
filePatternOneDot(s) ==
    \E d \in 2..Len(s) :
        /\ s[d] = "."
        /\ \A i \in 1..(d - 1) : s[i] # "."
        /\ Len(s) - d >= 1 /\ Len(s) - d <= 15
        /\ \A i \in (d + 1)..Len(s) : s[i] \in WordChar

\* ^.+\.\w{1,15}$   ('.' matches every rune but the newline)
filePattern(s) ==
    \E d \in 2..Len(s) :
        /\ s[d] = "."
        /\ \A i \in 1..(d - 1) : s[i] # "\n"
        /\ Len(s) - d >= 1 /\ Len(s) - d <= 15
        /\ \A i \in (d + 1)..Len(s) : s[i] \in WordChar

\* ^[a-zA-Z0-9_-]+$
slugPattern(s) == Len(s) >= 1 /\ AllIn(s, UrlSafe)

\* ^[a-zA-Z0-9]+$
prefixPattern(s) == Len(s) >= 1 /\ AllIn(s, Alnum)

(***************************************************************************)
(* identifyIDType: the ID type of a segment, checking the patterns in      *)
(* order of specificity.  A call yields its label (the empty string when   *)
(* nothing matched) and depth, the deepest nesting of identifyIDType calls *)
(* made beneath it (0 when it made none).                                  *)
(***************************************************************************)
Max(a, b) == IF a >= b THEN a ELSE b

Returned(l, d) == [label |-> l, depth |-> d]

\* wholeSegmentRules with the File check moved in front of the ISO date check
wholeSegmentRulesFileBeforeDate(segment) ==
    IF uuidPattern(segment) THEN labelUUID
    ELSE IF numericPattern(segment) THEN labelNumericID
    ELSE IF filePattern(segment) THEN labelFile
    ELSE IF isoDatePattern(segment) THEN labelISODate
    ELSE IF ulidPattern(segment) THEN labelULID
    ELSE IF cuidPattern(segment) THEN labelCUID
    ELSE IF cuid2Pattern(segment) THEN labelCUID2
    ELSE IF ByteLen(segment) = 21 /\ nanoidPattern(segment) THEN labelNanoID
    ELSE << >>

\* wholeSegmentRules with the ULID check moved in front of the numeric check
wholeSegmentRulesUlidBeforeNumeric(segment) ==
    IF uuidPattern(segment) THEN labelUUID
    ELSE IF ulidPattern(segment) THEN labelULID
    ELSE IF numericPattern(segment) THEN labelNumericID
    ELSE IF isoDatePattern(segment) THEN labelISODate
    ELSE IF cuidPattern(segment) THEN labelCUID
    ELSE IF cuid2Pattern(segment) THEN labelCUID2
    ELSE IF ByteLen(segment) = 21 /\ nanoidPattern(segment) THEN labelNanoID
    ELSE IF filePattern(segment) THEN labelFile
    ELSE << >>

\* wholeSegmentRules answering a UUID with the wildcard of the older scheme
wholeSegmentRulesWildcard(segment) ==
    IF uuidPattern(segment) THEN <<"*">>
    ELSE IF numericPattern(segment) THEN labelNumericID
    ELSE IF isoDatePattern(segment) THEN labelISODate
    ELSE IF ulidPattern(segment) THEN labelULID
    ELSE IF cuidPattern(segment) THEN labelCUID
    ELSE IF cuid2Pattern(segment) THEN labelCUID2
    ELSE IF ByteLen(segment) = 21 /\ nanoidPattern(segment) THEN labelNanoID
    ELSE IF filePattern(segment) THEN labelFile
    ELSE << >>

\* rules 1 to 8, matched against the whole segment; the empty string if none matches
wholeSegmentRules(segment) ==
    IF uuidPattern(segment) THEN labelUUID
    ELSE IF numericPattern(segment) THEN labelNumericID
    ELSE IF isoDatePattern(segment) THEN labelISODate
    ELSE IF ulidPattern(segment) THEN labelULID
    ELSE IF cuidPattern(segment) THEN labelCUID
    ELSE IF cuid2Pattern(segment) THEN labelCUID2
    ELSE IF ByteLen(segment) = 21 /\ nanoidPattern(segment) THEN labelNanoID
    ELSE IF filePattern(segment) THEN labelFile
    ELSE << >>

RECURSIVE identifyIDTypeCall(_)

\* colonPrefix trying only rules 1 to 8 on the suffix
colonPrefixNoRecursion(segment) ==
    LET idx == Index(segment, ":")
        prefix == SubSeq(segment, 1, idx)
        suffix == SubSeq(segment, idx + 2, Len(segment))
    IN IF idx > 0 /\ prefixPattern(prefix) /\ suffix # << >>
       THEN Returned(wholeSegmentRules(suffix), 0)
       ELSE Returned(<< >>, 0)

\* rule 9, colon separator: prefix:ID
colonPrefix(segment) ==
    LET idx == Index(segment, ":")
        prefix == SubSeq(segment, 1, idx)
        suffix == SubSeq(segment, idx + 2, Len(segment))
    IN IF idx > 0 /\ prefixPattern(prefix) /\ suffix # << >>
       THEN LET inner == identifyIDTypeCall(suffix)
            IN Returned(inner.label, inner.depth + 1)
       ELSE Returned(<< >>, 0)

\* underscorePrefix without the ISO date among the suffixes it promotes
underscorePrefixNoDate(segment) ==
    LET idx == Index(segment, "_")
        prefix == SubSeq(segment, 1, idx)
        suffix == SubSeq(segment, idx + 2, Len(segment))
    IN IF idx > 0 /\ prefixPattern(prefix) /\ suffix # << >>
       THEN IF \/ uuidPattern(suffix)
               \/ ulidPattern(suffix)
               \/ cuidPattern(suffix)
               \/ cuid2Pattern(suffix)
               \/ (ByteLen(suffix) = 21 /\ nanoidPattern(suffix))
            THEN LET inner == identifyIDTypeCall(suffix)
                 IN Returned(inner.label, inner.depth + 1)
            ELSE IF numericPattern(suffix) /\ ByteLen(suffix) >= 3
            THEN Returned(labelNumericID, 0)
            ELSE Returned(<< >>, 0)
       ELSE Returned(<< >>, 0)

\* underscorePrefix promoting a numeric suffix from two digits on
underscorePrefixTwoDigits(segment) ==
    LET idx == Index(segment, "_")
        prefix == SubSeq(segment, 1, idx)
        suffix == SubSeq(segment, idx + 2, Len(segment))
    IN IF idx > 0 /\ prefixPattern(prefix) /\ suffix # << >>
       THEN IF \/ uuidPattern(suffix)
               \/ isoDatePattern(suffix)
               \/ ulidPattern(suffix)
               \/ cuidPattern(suffix)
               \/ cuid2Pattern(suffix)
               \/ (ByteLen(suffix) = 21 /\ nanoidPattern(suffix))
            THEN LET inner == identifyIDTypeCall(suffix)
                 IN Returned(inner.label, inner.depth + 1)
            ELSE IF numericPattern(suffix) /\ ByteLen(suffix) >= 2
            THEN Returned(labelNumericID, 0)
            ELSE Returned(<< >>, 0)
       ELSE Returned(<< >>, 0)

\* rule 9, underscore separator: prefix_ID
underscorePrefix(segment) ==
    LET idx == Index(segment, "_")
        prefix == SubSeq(segment, 1, idx)
        suffix == SubSeq(segment, idx + 2, Len(segment))
    IN IF idx > 0 /\ prefixPattern(prefix) /\ suffix # << >>
       THEN IF \/ uuidPattern(suffix)
               \/ isoDatePattern(suffix)
               \/ ulidPattern(suffix)
               \/ cuidPattern(suffix)
               \/ cuid2Pattern(suffix)
               \/ (ByteLen(suffix) = 21 /\ nanoidPattern(suffix))
            THEN LET inner == identifyIDTypeCall(suffix)
                 IN Returned(inner.label, inner.depth + 1)
            ELSE IF numericPattern(suffix) /\ ByteLen(suffix) >= 3
            THEN Returned(labelNumericID, 0)
            ELSE Returned(<< >>, 0)
       ELSE Returned(<< >>, 0)

\* slugRule asking for a digit or a separator instead of both
slugRuleEither(segment) ==
    IF slugPattern(segment)
    THEN LET hasDigit == \E i \in DOMAIN segment : segment[i] \in Digit
             hasSeparator == \E i \in DOMAIN segment : segment[i] \in {"-", "_"}
         IN IF hasDigit \/ hasSeparator THEN labelSlug ELSE << >>
    ELSE << >>

\* rule 10: only [a-zA-Z0-9_-], with a digit and a separator
slugRule(segment) ==
    IF slugPattern(segment)
    THEN LET hasDigit == \E i \in DOMAIN segment : segment[i] \in Digit
             hasSeparator == \E i \in DOMAIN segment : segment[i] \in {"-", "_"}
         IN IF hasDigit /\ hasSeparator THEN labelSlug ELSE << >>
    ELSE << >>

\* identifyIDType with the slug check in front of every other rule
identifyIDTypeCallSlugFirst(segment) ==
    IF segment = << >> THEN Returned(<< >>, 0)
    ELSE IF slugRule(segment) # << >> THEN Returned(labelSlug, 0)
    ELSE LET whole == wholeSegmentRules(segment)
         IN IF whole # << >> THEN Returned(whole, 0)
            ELSE LET c == colonPrefix(segment)
                 IN IF c.label # << >> THEN c
                    ELSE LET u == underscorePrefix(segment)
                         IN Returned(u.label, Max(c.depth, u.depth))

\* identifyIDType with the underscore rule as the else branch of the colon rule
identifyIDTypeCallElseIf(segment) ==
    IF segment = << >> THEN Returned(<< >>, 0)
    ELSE LET whole == wholeSegmentRules(segment)
         IN IF whole # << >> THEN Returned(whole, 0)
            ELSE LET c == colonPrefix(segment)
                 IN IF c.label # << >> THEN c
                    ELSE IF Index(segment, ":") > 0
                    THEN Returned(slugRule(segment), c.depth)
                    ELSE LET u == underscorePrefix(segment)
                         IN IF u.label # << >> THEN u
                            ELSE Returned(slugRule(segment), 0)

identifyIDTypeCall(segment) ==
    IF segment = << >> THEN Returned(<< >>, 0)
    ELSE LET whole == wholeSegmentRules(segment)
         IN IF whole # << >> THEN Returned(whole, 0)
            ELSE LET c == colonPrefix(segment)
                 IN IF c.label # << >> THEN c
                    ELSE LET u == underscorePrefix(segment)
                             d == Max(c.depth, u.depth)
                         IN IF u.label # << >> THEN Returned(u.label, d)
                            ELSE Returned(slugRule(segment), d)

identifyIDType(segment) == identifyIDTypeCall(segment).label

(***************************************************************************)
(* extractPathGroup: the path with its ID segments replaced by their       *)
(* labels.                                                                 *)
(***************************************************************************)
RECURSIVE appendSegmentsKeepEmpty(_)
\* the loop without the skip of the empty segments
appendSegmentsKeepEmpty(segments) ==
    IF segments = << >> THEN << >>
    ELSE LET segment == Head(segments)
             rest == appendSegmentsKeepEmpty(Tail(segments))
             label == identifyIDType(segment)
         IN IF label # << >> THEN <<label>> \o rest
            ELSE <<segment>> \o rest

RECURSIVE appendSegmentsLabelOnly(_)
\* the loop appending the label in both branches
appendSegmentsLabelOnly(segments) ==
    IF segments = << >> THEN << >>
    ELSE LET segment == Head(segments)
             rest == appendSegmentsLabelOnly(Tail(segments))
             label == identifyIDType(segment)
         IN IF segment = << >> THEN rest
            ELSE <<label>> \o rest

RECURSIVE appendSegments(_)
\* the loop over the segments: empty ones skipped, the others labelled or kept
appendSegments(segments) ==
    IF segments = << >> THEN << >>
    ELSE LET segment == Head(segments)
             rest == appendSegments(Tail(segments))
             label == identifyIDType(segment)
         IN IF segment = << >> THEN rest
            ELSE IF label # << >> THEN <<label>> \o rest
            ELSE <<segment>> \o rest

\* extractPathGroup without the slash in front of the joined segments
extractPathGroupNoLeadingSlash(path) ==
    IF path = << >> \/ path = <<"/">>
    THEN path
    ELSE Join(appendSegments(Split(Trim(path))))

extractPathGroup(path) ==
    IF path = << >> \/ path = <<"/">>
    THEN path
    ELSE <<"/">> \o Join(appendSegments(Split(Trim(path))))

(***************************************************************************)
(* add-path-header, the older plugin: its extractPathGroup replaces the ID *)
(* segments with "*".                                                      *)
(***************************************************************************)
\* add-path-header's uuidPattern:
\* ^[0-9a-fA-F]{8}-[0-9a-fA-F]{4}-[0-9a-fA-F]{4}-[0-9a-fA-F]{4}-[0-9a-fA-F]{12}$
legacyUUIDPattern(s) ==
    /\ Len(s) = 36
    /\ \A i \in 1..36 :
           IF i \in {9, 14, 19, 24} THEN s[i] = "-" ELSE s[i] \in HexChar

\* add-path-header's numericPattern: ^\d+$
legacyNumericPattern(s) == Len(s) >= 1 /\ AllIn(s, Digit)

\* add-path-header's slugPattern: ^[a-zA-Z0-9_-]+$
legacySlugPattern(s) == Len(s) >= 1 /\ AllIn(s, UrlSafe)

\* legacyIsID taking a slug with a digit or a separator
legacyIsIDEither(segment) ==
    \/ legacyUUIDPattern(segment)
    \/ legacyNumericPattern(segment)
    \/ /\ legacySlugPattern(segment)
       /\ LET hasDigit == \E i \in DOMAIN segment : segment[i] \in Digit
              hasSeparator == \E i \in DOMAIN segment : segment[i] \in {"-", "_"}
          IN hasDigit \/ hasSeparator

\* the three checks after which the loop appends "*"
legacyIsID(segment) ==
    \/ legacyUUIDPattern(segment)
    \/ legacyNumericPattern(segment)
    \/ /\ legacySlugPattern(segment)
       /\ LET hasDigit == \E i \in DOMAIN segment : segment[i] \in Digit
              hasSeparator == \E i \in DOMAIN segment : segment[i] \in {"-", "_"}
          IN hasDigit /\ hasSeparator

RECURSIVE legacyAppendSegments(_)
\* the loop over the segments: empty ones skipped, IDs starred, the others kept
legacyAppendSegments(segments) ==
    IF segments = << >> THEN << >>
    ELSE LET segment == Head(segments)
             rest == legacyAppendSegments(Tail(segments))
         IN IF segment = << >> THEN rest
            ELSE IF legacyIsID(segment) THEN <<(<<"*">>)>> \o rest
            ELSE <<segment>> \o rest

\* add-path-header's extractPathGroup
legacyExtractPathGroup(path) ==
    IF path = << >> \/ path = <<"/">>
    THEN path
    ELSE <<"/">> \o Join(legacyAppendSegments(Split(Trim(path))))

(***************************************************************************)
(* The inputs: segments that meet, and that narrowly miss, each rule, and  *)
(* paths made of segments and runs of slashes.                             *)
(***************************************************************************)
Rep(c, n) == [i \in 1..n |-> c]

FixUUID ==
    <<"5", "5", "0", "e", "8", "4", "0", "0", "-", "e", "2", "9", "b", "-", "4", "1", "d", "4", "-", "a", "7", "1", "6", "-", "4", "4", "6", "6", "5", "5", "4", "4", "0", "0", "0", "0">>

FixULID ==
    <<"0", "1", "A", "R", "Z", "3", "N", "D", "E", "K", "T", "S", "V", "4", "R", "R", "F", "F", "Q", "6", "9", "G", "5", "F", "A", "V">>

FixCUID ==
    <<"c", "l", "h", "3", "a", "m", "1", "g", "3", "0", "0", "0", "0", "u", "d", "o", "c", "l", "3", "6", "3", "e", "o", "f", "y">>

FixCUID2 ==
    <<"t", "z", "4", "a", "9", "8", "x", "x", "a", "t", "9", "6", "i", "w", "s", "9", "z", "m", "b", "r", "g", "j", "3", "a">>

FixNanoID ==
    <<"V", "1", "S", "t", "G", "X", "R", "8", "_", "Z", "5", "j", "d", "H", "i", "6", "B", "-", "m", "y", "T">>

FixDate == <<"2", "0", "2", "6", "-", "0", "2", "-", "2", "6">>

FixTimes == {<<"T", "0", "0", ":", "0", "1", ":", "5", "5">>, <<"t", "0", "0", ":", "0", "1", ":", "5", "5">>}

FixFracs == {<<".", "1", "2", "3">>, <<".">> \o Rep("1", 9), <<".">> \o Rep("1", 10)}

FixZones == {<<"Z">>, <<"+", "0", "2", ":", "0", "0">>, <<"+", "0", "2", "0", "0">>}

\* five groups of one character, the last one short, exact or long
UuidLike ==
    {Rep(c, 8) \o <<"-">> \o Rep(c, 4) \o <<"-">> \o Rep(c, 4) \o <<"-">>
        \o Rep(c, 4) \o <<"-">> \o Rep(c, n) :
        c \in {"a", "F", "5", "g"}, n \in {11, 12, 13}}

DigitRuns == {Rep("7", n) : n \in 1..MaxDigits}

IsoLike ==
    {FixDate \o tm \o fr \o zn :
        tm \in FixTimes \cup {<< >>},
        fr \in FixFracs \cup {<< >>},
        zn \in FixZones \cup {<< >>}}

\* one letter repeated up to the lengths the ID rules fix, with a short tail
LongRuns ==
    {Rep(c, n - Len(tail)) \o tail :
        c \in {"a", "c", "A", "L", "I"},
        n \in {20, 21, 22, 24, 25, 26, 27},
        tail \in {<< >>, <<"7">>, <<"_", "7">>, <<"-", "a">>}}

\* a prefix, an underscore and a run of digits
PrefixedDigitRuns == {<<"u", "s", "r", "_">> \o d : d \in DigitRuns}

Labels ==
    {labelUUID, labelNumericID, labelISODate, labelULID, labelCUID,
     labelCUID2, labelNanoID, labelFile, labelSlug}

Words ==
    {<<"a", "p", "i">>,
     <<"v", "1">>,
     <<"a", "b", "c">>,
     <<"p", "r", "o", "f", "i", "l", "e">>,
     <<"b", "y", "_", "c", "r", "e", "a", "t", "e", "d", "_", "a", "t">>,
     <<"m", "a", "t", "c", "h", "_", "r", "e", "c", "o", "m", "m", "e", "n", "d", "a", "t", "i", "o", "n", "s">>,
     <<"b", "o", "o", "k", "i", "n", "g", "-", "a", "b", "c", "-", "9", "9">>,
     <<"u", "s", "e", "r", "_", "4", "2">>,
     <<"c", "o", "u", "r", "t", "_", "1", "2", "3", "4", "5">>,
     <<"n", "o", "t", "_", "a", "_", "p", "r", "e", "f", "i", "x", "_", "1", "2", "3">>,
     <<"n", "o", "t", "-", "a", "-", "p", "r", "e", "f", "i", "x", ":", "i", "n", "v", "a", "l", "i", "d", "-", "i", "d">>,
     <<"i", "n", "d", "e", "x", ".", "h", "t", "m", "l">>,
     <<"a", "p", "p", ".", "m", "i", "n", ".", "j", "s">>,
     <<"m", "a", "i", "n", "_", "s", "t", "y", "l", "e", ".", "c", "s", "s">>,
     <<"s", "w", "a", "g", "g", "e", "r", "-", "u", "i", "-", "b", "u", "n", "d", "l", "e", ".", "j", "s">>,
     <<".", "e", "n", "v">>,
     <<".">>,
     <<"a", ".">>,
     <<"1", "2", "3", ".", "4", "5">>,
     <<"a", "\n", "b", ".", "t", "x", "t">>,
     <<"U+00E9", ".", "j", "s">>,
     <<".", ".", "j", "s">>,
     <<"a", ".", "t", "-", "t">>,
     <<"U+00E9">>,
     <<"a", " ", "b">>,
     <<"x", "_", "1", ":", "2">>,
     <<"x", ".", "e", "e", "e", "e", "e", "e", "e", "e", "e", "e", "e", "e", "e", "e", "e">>,
     <<"x", ".", "e", "e", "e", "e", "e", "e", "e", "e", "e", "e", "e", "e", "e", "e", "e", "e">>,
     <<"2", "0", "2", "6", "-", "2", "-", "2", "6">>,
     <<"a", "b", "-", "1">>,
     <<"a", ":", "b", ":", "c", ":", "1", "2", "3">>,
     <<":", "1", "2", "3">>,
     <<"_", "1", "2", "3">>,
     <<"u", "s", "r", "_", "1", "2">>,
     <<"u", "s", "r", "_", "1", "2", "3">>,
     <<"u", "s", "r", ":", "U+00E9">>,
     Rep("a", 10) \o <<"_">> \o FixDate,
     <<"*">>,
     <<"a", "\n">>}

\* what a prefix is put in front of
Cores ==
    {FixUUID, FixULID, FixCUID, FixCUID2, FixNanoID, FixDate, << >>,
     Rep("7", 21), Rep("a", 21)}
    \cup {FixDate \o tm : tm \in FixTimes}
    \cup {FixDate \o tm \o fr : tm \in FixTimes, fr \in {<<".", "1", "2", "3">>}}
    \cup {<<"1", "2", "3">>,
     <<"4", "2">>,
     <<"i", "n", "d", "e", "x", ".", "h", "t", "m", "l">>,
     <<"a", "b", "c">>,
     <<"a", "b", "-", "1">>}

Prefixes == {<<"u", "s", "r">>, <<"n", "-", "a">>, << >>}

RECURSIVE Prefixed(_, _)
\* the strings of S behind at most n prefixes, each ended by ':' or '_'
Prefixed(S, n) ==
    IF n = 0 THEN S
    ELSE S \cup {p \o <<sep>> \o b :
                    p \in Prefixes, sep \in {":", "_"}, b \in Prefixed(S, n - 1)}

Segments ==
    UuidLike \cup DigitRuns \cup PrefixedDigitRuns \cup IsoLike \cup LongRuns
        \cup Labels \cup Words
        \cup Prefixed(Cores, MaxPrefixes)

PathSegs == {<<"a", "p", "i">>,
     <<"4", "2">>,
     <<"s", "l", "u", "g">>,
     <<"u", "s", "e", "r", "_", "4", "2">>,
     <<"a", ".", "j", "s">>,
     <<"U+00E9">>}

RECURSIVE JoinWith(_, _)
\* the segments of q with m slashes between neighbours
JoinWith(q, m) ==
    IF q = << >> THEN << >>
    ELSE IF Len(q) = 1 THEN q[1]
    ELSE q[1] \o Rep("/", m) \o JoinWith(Tail(q), m)

Paths ==
    {Rep("/", l) \o JoinWith(q, m) \o Rep("/", tr) :
        l \in 0..MaxSlashes, m \in 1..MaxSlashes, tr \in 0..MaxSlashes,
        q \in UNION {[1..k -> PathSegs] : k \in 0..MaxSegs}}
    \cup {<<"/">> \o s : s \in Segments}

Inputs == Segments \cup Paths

(***************************************************************************)
(* The state: one input, and what the two functions made of it.            *)
(***************************************************************************)
VARIABLES
    input,      \* the string given: a segment or a request path
    pc,         \* "start", "identified", "extracted", "reextracted" or "compared"
    call,       \* what identifyIDType(input) returned
    group,      \* extractPathGroup(input)
    regroup,    \* extractPathGroup(group)
    config,     \* the Config given to New
    handler,    \* the AddPathHeader New returned, NoHandler before
    err,        \* the error New returned
    reqs,       \* the requests in flight, each with ServeHTTP's position in it
    legacyGroup \* add-path-header's extractPathGroup(input)

httpVars == <<config, handler, err, reqs>>

vars == <<input, pc, call, group, regroup, config, handler, err, reqs, legacyGroup>>

defaultHeaderName == <<"x", "-", "p", "a", "t", "h", "-", "g", "r", "o", "u", "p">>

\* CreateConfig: the default plugin configuration
CreateConfig == [HeaderName |-> defaultHeaderName]

NoHandler == [next |-> "none", headerName |-> << >>, name |-> "none"]

Init ==
    /\ input \in Inputs
    /\ pc = "start"
    /\ call = Returned(<< >>, 0)
    /\ group = << >>
    /\ regroup = << >>
    /\ config = CreateConfig
    /\ handler = NoHandler
    /\ err = "nil"
    /\ reqs = << >>
    /\ legacyGroup = << >>

\* identifyIDType(input), for an input that can be a segment (no slash in it)
Identify ==
    /\ pc = "start"
    /\ \A i \in DOMAIN input : input[i] # "/"
    /\ call' = identifyIDTypeCall(input)
    /\ pc' = "identified"
    /\ UNCHANGED <<input, group, regroup, legacyGroup>>
    /\ UNCHANGED httpVars

\* extractPathGroup(input)
Extract ==
    /\ pc = "start"
    /\ group' = extractPathGroup(input)
    /\ pc' = "extracted"
    /\ UNCHANGED <<input, call, regroup, legacyGroup>>
    /\ UNCHANGED httpVars

\* extractPathGroup applied to its own result
ExtractAgain ==
    /\ pc = "extracted"
    /\ regroup' = extractPathGroup(group)
    /\ pc' = "reextracted"
    /\ UNCHANGED <<input, call, group, legacyGroup>>
    /\ UNCHANGED httpVars

\* add-path-header's extractPathGroup(input), next to the group already made
ExtractLegacy ==
    /\ pc = "extracted"
    /\ legacyGroup' = legacyExtractPathGroup(input)
    /\ pc' = "compared"
    /\ UNCHANGED <<input, call, group, regroup>>
    /\ UNCHANGED httpVars

Next == Identify \/ Extract \/ ExtractAgain \/ ExtractLegacy

Spec == Init /\ [][Next]_vars

(***************************************************************************)
(* The middleware: New builds the handler, ServeHTTP computes the path     *)
(* group, sets it in the request's header and calls the next handler.      *)
(* A header is a map from canonical keys to the sequence of their values.  *)
(***************************************************************************)
LowerSeq ==
    <<"a", "b", "c", "d", "e", "f", "g", "h", "i", "j", "k", "l", "m",
      "n", "o", "p", "q", "r", "s", "t", "u", "v", "w", "x", "y", "z">>

UpperSeq ==
    <<"A", "B", "C", "D", "E", "F", "G", "H", "I", "J", "K", "L", "M",
      "N", "O", "P", "Q", "R", "S", "T", "U", "V", "W", "X", "Y", "Z">>

ToUpper(c) ==
    IF c \in Lower THEN UpperSeq[CHOOSE i \in DOMAIN LowerSeq : LowerSeq[i] = c] ELSE c

ToLower(c) ==
    IF c \in Upper THEN LowerSeq[CHOOSE i \in DOMAIN UpperSeq : UpperSeq[i] = c] ELSE c

\* the key Header.Set and Header.Values store and look a name up under: the first
\* letter and every letter after a '-' in upper case, the others in lower case;
\* a name with a character no header name may have is left as it is
CanonicalMIMEHeaderKey(name) ==
    IF \E i \in DOMAIN name : name[i] \notin Alnum \cup {"-", "_"}
    THEN name
    ELSE [i \in DOMAIN name |->
             IF i = 1 \/ name[i - 1] = "-" THEN ToUpper(name[i]) ELSE ToLower(name[i])]

\* Header.Set taken for Header.Add: one more value under the key
HeaderSetAppending(h, name, value) ==
    LET key == CanonicalMIMEHeaderKey(name)
    IN [k \in DOMAIN h \cup {key} |->
           IF k = key
           THEN (IF key \in DOMAIN h THEN h[key] ELSE << >>) \o <<value>>
           ELSE h[k]]

\* Header.Set: the value replaces whatever the key held
HeaderSet(h, name, value) ==
    LET key == CanonicalMIMEHeaderKey(name)
    IN [k \in DOMAIN h \cup {key} |-> IF k = key THEN <<value>> ELSE h[k]]

\* Header.Values: the values under the name, none when the key is absent
HeaderValues(h, name) ==
    LET key == CanonicalMIMEHeaderKey(name)
    IN IF key \in DOMAIN h THEN h[key] ELSE << >>

CustomHeaderName == <<"X", "-", "C", "u", "s", "t", "o", "m", "-", "P", "a", "t", "h">>

\* the configurations: the default one, and one with each header name set
Configs ==
    {CreateConfig}
        \cup {[CreateConfig EXCEPT !.HeaderName = n] : n \in {<< >>, CustomHeaderName}}

NoHeader == [k \in {} |-> << >>]

StaleValue == <<"/", "s", "t", "a", "l", "e">>

\* what a request carries when it comes in: nothing, or values under both names
InboundHeaders ==
    {NoHeader,
     [k \in {CanonicalMIMEHeaderKey(defaultHeaderName), CustomHeaderName} |->
         IF k = CustomHeaderName THEN <<StaleValue>> ELSE <<StaleValue, << >> >>]}

ServePaths ==
    {<<"/", "a", "p", "i", "/", "4", "2">>,
     <<"/", "/", "u", "s", "e", "r", "_", "4", "2", "/">>,
     <<"/">>}

Requests == 1..MaxRequests

NewRequest(path, header) ==
    [path |-> path, inbound |-> header, header |-> header, at |-> "ready",
     pathGroup |-> << >>, nextCalls |-> 0, seen |-> << >>]

InitHTTP ==
    /\ input = << >>
    /\ pc = "http"
    /\ call = Returned(<< >>, 0)
    /\ group = << >>
    /\ regroup = << >>
    /\ config \in Configs
    /\ handler = NoHandler
    /\ err = "nil"
    /\ reqs \in [Requests -> {NewRequest(p, h) : p \in ServePaths, h \in InboundHeaders}]
    /\ legacyGroup = << >>

\* the header name without the fall-back to the default
newHeaderNameNoDefault(cfg) == cfg.HeaderName

\* the header name New stores
newHeaderName(cfg) ==
    IF cfg.HeaderName = << >> THEN defaultHeaderName ELSE cfg.HeaderName

\* New(ctx, next, config, name)
New ==
    /\ handler = NoHandler
    /\ handler' = [next |-> "next", headerName |-> newHeaderName(config),
                   name |-> "test-middleware"]
    /\ err' = "nil"
    /\ UNCHANGED <<input, pc, call, group, regroup, legacyGroup, config, reqs>>

\* the first line keeping the path group where every request of the handler
\* reads it, instead of in a local variable
ServeExtractShared(r) ==
    /\ handler # NoHandler
    /\ reqs[r].at = "ready"
    /\ reqs' = [q \in DOMAIN reqs |->
                   IF q = r
                   THEN [reqs[q] EXCEPT !.pathGroup = extractPathGroup(reqs[r].path),
                                        !.at = "extracted"]
                   ELSE [reqs[q] EXCEPT !.pathGroup = extractPathGroup(reqs[r].path)]]
    /\ UNCHANGED <<input, pc, call, group, regroup, legacyGroup, config, handler, err>>

\* ServeHTTP, first line: pathGroup := extractPathGroup(req.URL.Path)
ServeExtract(r) ==
    /\ handler # NoHandler
    /\ reqs[r].at = "ready"
    /\ reqs' = [reqs EXCEPT ![r].pathGroup = extractPathGroup(reqs[r].path),
                            ![r].at = "extracted"]
    /\ UNCHANGED <<input, pc, call, group, regroup, legacyGroup, config, handler, err>>

\* ServeHTTP, second line: req.Header.Set(a.headerName, pathGroup)
ServeSetHeader(r) ==
    /\ reqs[r].at = "extracted"
    /\ reqs' = [reqs EXCEPT
                   ![r].header = HeaderSet(reqs[r].header, handler.headerName,
                                           reqs[r].pathGroup),
                   ![r].at = "set"]
    /\ UNCHANGED <<input, pc, call, group, regroup, legacyGroup, config, handler, err>>

\* ServeHTTP, third line: a.next.ServeHTTP(rw, req); the next handler sees the
\* values the header holds at that moment
ServeNext(r) ==
    /\ reqs[r].at = "set"
    /\ reqs' = [reqs EXCEPT
                   ![r].nextCalls = reqs[r].nextCalls + 1,
                   ![r].seen = HeaderValues(reqs[r].header, handler.headerName),
                   ![r].at = "done"]
    /\ UNCHANGED <<input, pc, call, group, regroup, legacyGroup, config, handler, err>>

NextHTTP ==
    \/ New
    \/ \E r \in Requests : ServeExtract(r) \/ ServeSetHeader(r) \/ ServeNext(r)

SpecHTTP == InitHTTP /\ [][NextHTTP]_vars

(***************************************************************************)
(* Reference definitions the properties are stated with.                   *)
(***************************************************************************)
\* the label rule 9 (prefixed-ID extraction) gives: the colon form first
PrefixedLabel(s) ==
    IF colonPrefix(s).label # << >> THEN colonPrefix(s).label
    ELSE underscorePrefix(s).label

\* only [A-Za-z0-9_-], at least one digit and at least one '-' or '_'
SlugCondition(s) ==
    /\ s # << >>
    /\ \A i \in DOMAIN s : s[i] \in UrlSafe
    /\ \E i \in DOMAIN s : s[i] \in Digit
    /\ \E i \in DOMAIN s : s[i] = "-" \/ s[i] = "_"

\* s satisfies rule i of the fixed order
RuleHolds(i, s) ==
    CASE i = 1 -> uuidPattern(s)
      [] i = 2 -> numericPattern(s)
      [] i = 3 -> isoDatePattern(s)
      [] i = 4 -> ulidPattern(s)
      [] i = 5 -> cuidPattern(s)
      [] i = 6 -> cuid2Pattern(s)
      [] i = 7 -> ByteLen(s) = 21 /\ nanoidPattern(s)
      [] i = 8 -> filePattern(s)
      [] i = 9 -> PrefixedLabel(s) # << >>
      [] i = 10 -> SlugCondition(s)

RuleLabel(i, s) ==
    CASE i = 1 -> labelUUID
      [] i = 2 -> labelNumericID
      [] i = 3 -> labelISODate
      [] i = 4 -> labelULID
      [] i = 5 -> labelCUID
      [] i = 6 -> labelCUID2
      [] i = 7 -> labelNanoID
      [] i = 8 -> labelFile
      [] i = 9 -> PrefixedLabel(s)
      [] i = 10 -> labelSlug

RulesHolding(s) == {i \in 1..10 : RuleHolds(i, s)}

\* the label of the lowest-numbered rule s satisfies, the empty label if none
FirstRuleLabel(s) ==
    IF RulesHolding(s) = {} THEN << >>
    ELSE LET first == CHOOSE i \in RulesHolding(s) :
                          \A j \in RulesHolding(s) : i <= j
         IN RuleLabel(first, s)

\* where the non-empty '/'-delimited pieces of p start
PieceStarts(p) == {i \in DOMAIN p : p[i] # "/" /\ (i = 1 \/ p[i - 1] = "/")}

\* the piece of p that starts at i
PieceAt(p, i) ==
    LET j == CHOOSE e \in i..Len(p) :
                 /\ \A k \in i..e : p[k] # "/"
                 /\ (e = Len(p) \/ p[e + 1] = "/")
    IN SubSeq(p, i, j)

RECURSIVE PiecesFrom(_, _)
PiecesFrom(p, starts) ==
    IF starts = {} THEN << >>
    ELSE LET i == CHOOSE x \in starts : \A y \in starts : x <= y
         IN <<PieceAt(p, i)>> \o PiecesFrom(p, starts \ {i})

\* the non-empty pieces of p split on '/', in order
Pieces(p) == PiecesFrom(p, PieceStarts(p))

\* a piece replaced by its label when it has one
Labelled(x) == IF identifyIDType(x) # << >> THEN identifyIDType(x) ELSE x

ReferenceGroup(p) ==
    IF p = << >> \/ p = <<"/">> THEN p
    ELSE <<"/">> \o Join([i \in DOMAIN Pieces(p) |-> Labelled(Pieces(p)[i])])

\* every segment of p classifies as Literal
AllLiteral(p) == \A i \in DOMAIN Pieces(p) : identifyIDType(Pieces(p)[i]) = << >>

\* empty, or a leading '/' and then segments with one '/' between them
Canonical(p) ==
    \/ p = << >>
    \/ /\ p[1] = "/"
       /\ \A i \in 1..(Len(p) - 1) : ~(p[i] = "/" /\ p[i + 1] = "/")
       /\ (Len(p) = 1 \/ p[Len(p)] # "/")

\* the number of ':' and '_' in s
Separators(s) == Cardinality({i \in DOMAIN s : s[i] = ":" \/ s[i] = "_"})

\* s has a '.' with 1 to 15 word characters after it, up to the end of s
ExtensionDots(s) ==
    {d \in DOMAIN s :
        /\ s[d] = "."
        /\ Len(s) - d \in 1..15
        /\ \A i \in (d + 1)..Len(s) : s[i] \in WordChar}

(***************************************************************************)
(* The properties.                                                         *)
(***************************************************************************)
\* C1: identifyIDType returns the label of the lowest-numbered rule the
\* segment satisfies in the order UUID, NumericID, ISODate, ULID, CUID, CUID2,
\* NanoID, File, prefixed-ID extraction, Slug, and the empty label when the
\* segment satisfies none.
C1_FirstMatchWins ==
    pc = "identified" => call.label = FirstRuleLabel(input)

\* a segment that satisfies an early and a later rule got the early rule's label
C1_Witness ==
    /\ pc = "identified"
    /\ RuleHolds(3, input) /\ RuleHolds(8, input)
    /\ call.label = labelISODate

\* C2: extractPathGroup(p) is p for "" and "/", and otherwise "/" followed by
\* the '/'-join of the non-empty pieces of p, each replaced by its label when
\* identifyIDType gives one.
C2_MatchesReference ==
    pc \in {"extracted", "reextracted"} => group = ReferenceGroup(input)

\* a path with a repeated slash and a trailing slash, one piece replaced, one kept
C2_Witness ==
    /\ pc = "extracted"
    /\ \E i \in 1..(Len(input) - 1) : input[i] = "/" /\ input[i + 1] = "/"
    /\ input[Len(input)] = "/"
    /\ \E i, j \in DOMAIN Pieces(input) :
           /\ identifyIDType(Pieces(input)[i]) # << >>
           /\ identifyIDType(Pieces(input)[j]) = << >>
    /\ group = ReferenceGroup(input)

\* C3: extractPathGroup(extractPathGroup(p)) = extractPathGroup(p).
C3_Idempotent ==
    pc = "reextracted" => regroup = group

\* a path whose segments were all replaced by labels, normalised twice
C3_Witness ==
    /\ pc = "reextracted"
    /\ Len(Pieces(input)) = 2
    /\ \A i \in DOMAIN Pieces(group) :
           Pieces(group)[i] \in Labels /\ Pieces(input)[i] \notin Labels
    /\ regroup = group

\* C4 as stated: a path whose segments all classify as Literal is returned
\* unchanged (read here for request paths, which begin with '/').
C4_AsStated ==
    (pc = "extracted" /\ input # << >> /\ input[1] = "/" /\ AllLiteral(input))
        => group = input

\* C4: a path in canonical form (empty, or a leading '/' and then non-empty
\* segments with single slashes between them and no trailing slash) whose
\* segments all classify as Literal is returned unchanged.
C4_LiteralPreservation ==
    (pc = "extracted" /\ Canonical(input) /\ AllLiteral(input)) => group = input

\* a canonical path of two literal segments came back unchanged
C4_Witness ==
    /\ pc = "extracted"
    /\ Canonical(input) /\ AllLiteral(input)
    /\ Len(Pieces(input)) = 2
    /\ group = input

\* C5: each of the nine labels, given as a segment, classifies as Literal, and
\* a path made of one label segment is kept unchanged.
C5_LabelsAreLiteral ==
    /\ (pc = "identified" /\ input \in Labels) => call.label = << >>
    /\ (pc = "extracted" /\ \E l \in Labels : input = <<"/">> \o l) => group = input

\* the label with a separator in it was classified, and is Literal
C5_Witness ==
    pc = "identified" /\ input = labelNumericID /\ call.label = << >>

\* C6: a non-empty segment of ASCII digits only classifies as numeric_id
\* whatever its length.
C6_DigitsAreNumeric ==
    (pc = "identified" /\ input # << >> /\ \A i \in DOMAIN input : input[i] \in Digit)
        => call.label = labelNumericID

\* 26 digits, which the ULID pattern matches too, classified as numeric_id
C6_Witness ==
    /\ pc = "identified"
    /\ Len(input) = 26 /\ \A i \in DOMAIN input : input[i] \in Digit
    /\ ulidPattern(input)
    /\ call.label = labelNumericID

\* C7: a segment that satisfies the Slug condition and one of the rules 1 to 7
\* gets that rule's label, never slug.
C7_IdBeforeSlug ==
    \A i \in 1..7 :
        (pc = "identified" /\ SlugCondition(input) /\ RuleHolds(i, input))
            => (call.label = RuleLabel(i, input) /\ call.label # labelSlug)

\* a 21-character NanoID with a digit and a separator classified as nanoid
C7_Witness ==
    /\ pc = "identified"
    /\ SlugCondition(input) /\ RuleHolds(7, input)
    /\ call.label = labelNanoID

\* C8: identifyIDType returns, for every input, exactly one result, which is one
\* of the nine labels or the empty label, and the calls it nests are no deeper
\* than the number of ':' and '_' separators of the input (so it terminates).
C8_Total ==
    pc = "identified" =>
        /\ call.label \in Labels \cup {<< >>}
        /\ call.depth \in 0..Separators(input)

\* a segment with several separators was classified through nested calls
C8_Witness ==
    /\ pc = "identified"
    /\ Separators(input) >= 3
    /\ call.depth >= 2
    /\ call.label \in Labels

\* C9: a segment of exactly 21 characters of [A-Za-z0-9_-] is nanoid only if it
\* has a digit, and is Literal when it has none.
C9_NanoIDNeedsDigit ==
    (pc = "identified" /\ ByteLen(input) = 21 /\ \A i \in DOMAIN input : input[i] \in UrlSafe)
        => /\ call.label = labelNanoID => \E i \in DOMAIN input : input[i] \in Digit
           /\ (\A i \in DOMAIN input : input[i] \notin Digit) => call.label = << >>

\* 21 characters with a separator and no digit were kept Literal
C9_Witness ==
    /\ pc = "identified"
    /\ ByteLen(input) = 21 /\ \A i \in DOMAIN input : input[i] \in UrlSafe
    /\ \E i \in DOMAIN input : input[i] = "_"
    /\ \A i \in DOMAIN input : input[i] \notin Digit
    /\ call.label = << >>

\* C10 as stated: a segment not matched by rules 1 to 7 with a '.' followed, up
\* to its end, by 1 to 15 word characters classifies as file, whatever precedes
\* the dot.
C10_AsStated ==
    (/\ pc = "identified"
     /\ \A i \in 1..7 : ~RuleHolds(i, input)
     /\ ExtensionDots(input) # {})
        => call.label = labelFile

\* C10: a segment not matched by rules 1 to 7 with a '.' followed, up to its
\* end, by 1 to 15 word characters classifies as file when at least one
\* character precedes that dot and no newline does, regardless of earlier dots.
C10_FileExtension ==
    (/\ pc = "identified"
     /\ \A i \in 1..7 : ~RuleHolds(i, input)
     /\ \E d \in ExtensionDots(input) :
            d > 1 /\ \A i \in 1..(d - 1) : input[i] # "\n")
        => call.label = labelFile

\* a name with an earlier dot in it classified as file
C10_Witness ==
    /\ pc = "identified"
    /\ \E d \in ExtensionDots(input) : \E e \in 1..(d - 1) : input[e] = "."
    /\ \A i \in 1..7 : ~RuleHolds(i, input)
    /\ call.label = labelFile

\* C11: for every request ServeHTTP handles, the next handler is invoked exactly
\* once, and when it is invoked the header named headerName holds exactly one
\* value, extractPathGroup of the request's path, whatever the request carried
\* under that name.
C11_NextSeesOneValue ==
    \A r \in DOMAIN reqs :
        /\ reqs[r].nextCalls = IF reqs[r].at = "done" THEN 1 ELSE 0
        /\ reqs[r].at = "done" => reqs[r].seen = <<extractPathGroup(reqs[r].path)>>

\* a request that came in with two values under the header name was served
C11_Witness ==
    \E r \in DOMAIN reqs :
        /\ reqs[r].at = "done"
        /\ Len(HeaderValues(reqs[r].inbound, handler.headerName)) = 2
        /\ reqs[r].nextCalls = 1
        /\ reqs[r].seen = <<extractPathGroup(reqs[r].path)>>
        /\ reqs[r].seen # <<reqs[r].path>>

\* C12: New returns no error, and its handler writes to the header named
\* config.HeaderName when that is non-empty and to x-path-group when it is
\* empty; CreateConfig yields x-path-group.
C12_HeaderNameOrDefault ==
    LET wanted == IF config.HeaderName = << >>
                  THEN <<"x", "-", "p", "a", "t", "h", "-", "g", "r", "o", "u", "p">>
                  ELSE config.HeaderName
    IN /\ err = "nil"
       /\ CreateConfig.HeaderName = <<"x", "-", "p", "a", "t", "h", "-", "g", "r", "o", "u", "p">>
       /\ handler # NoHandler => handler.headerName = wanted
       /\ \A r \in DOMAIN reqs :
              reqs[r].at \in {"set", "done"} =>
                  HeaderValues(reqs[r].header, wanted) = <<reqs[r].pathGroup>>

\* New was given an empty header name and its handler wrote to x-path-group
C12_Witness ==
    /\ config.HeaderName = << >>
    /\ handler # NoHandler
    /\ err = "nil"
    /\ \E r \in DOMAIN reqs :
           /\ reqs[r].at = "done"
           /\ HeaderValues(reqs[r].header, defaultHeaderName) = <<reqs[r].pathGroup>>
           /\ HeaderValues(reqs[r].inbound, defaultHeaderName) = << >>

\* C13: with requests served concurrently by one handler, in every
\* interleaving each request's header value is extractPathGroup of its own
\* path, and the handler's fields are not written once New has returned.
C13_RequestsDoNotInterfere ==
    /\ [](\A r \in DOMAIN reqs :
              /\ reqs[r].at \in {"set", "done"} =>
                     HeaderValues(reqs[r].header, handler.headerName)
                         = <<extractPathGroup(reqs[r].path)>>
              /\ reqs[r].at = "done" =>
                     reqs[r].seen = <<extractPathGroup(reqs[r].path)>>)
    /\ [][handler # NoHandler => handler' = handler]_vars

\* one request was served to the end while another, with another path group,
\* was between its first and its second line
C13_Witness ==
    \E r, q \in DOMAIN reqs :
        /\ reqs[r].at = "done" /\ reqs[q].at = "extracted"
        /\ reqs[q].pathGroup # reqs[r].pathGroup
        /\ reqs[r].seen = <<extractPathGroup(reqs[r].path)>>

(***************************************************************************)
(* The prefix rules.                                                       *)
(***************************************************************************)
\* the text before the first sep of segment, and the text after it
Before(segment, sep) == SubSeq(segment, 1, Index(segment, sep))

After(segment, sep) == SubSeq(segment, Index(segment, sep) + 2, Len(segment))

\* segment is P, sep and S, with P not empty and purely alphanumeric
HasPrefix(segment, sep) ==
    /\ Index(segment, sep) > 0
    /\ prefixPattern(Before(segment, sep))

\* C14, as the claim states it: for a non-empty purely alphanumeric P and a
\* suffix S that identifyIDType maps to a label K, identifyIDType(P:S) is K
C14_AsStated ==
    (/\ pc = "identified"
     /\ HasPrefix(input, ":")
     /\ identifyIDType(After(input, ":")) # << >>)
        => call.label = identifyIDType(After(input, ":"))

\* C14: for a non-empty purely alphanumeric P and a suffix S that
\* identifyIDType maps to a label K, identifyIDType(P:S) is K whenever P:S as
\* a whole matches none of rules 1 to 8
C14_ColonSuffixKindKept ==
    (/\ pc = "identified"
     /\ HasPrefix(input, ":")
     /\ identifyIDType(After(input, ":")) # << >>
     /\ wholeSegmentRules(input) = << >>)
        => call.label = identifyIDType(After(input, ":"))

C14_Witness ==
    /\ pc = "identified"
    /\ input = <<"u", "s", "r", ":", "u", "s", "r", "_", "1", "2", "3">>
    /\ call.label = labelNumericID

\* C15, as the claim states it: for a non-empty purely alphanumeric P and a
\* suffix S matching the UUID, ISO date, ULID, CUID, CUID2 or NanoID rule,
\* identifyIDType(P_S) is identifyIDType(S)
C15_AsStated ==
    (/\ pc = "identified"
     /\ HasPrefix(input, "_")
     /\ LET S == After(input, "_")
        IN \/ uuidPattern(S)
           \/ isoDatePattern(S)
           \/ ulidPattern(S)
           \/ cuidPattern(S)
           \/ cuid2Pattern(S)
           \/ (ByteLen(S) = 21 /\ nanoidPattern(S)))
        => call.label = identifyIDType(After(input, "_"))

\* C15: for a non-empty purely alphanumeric P and a suffix S matching the
\* UUID, ISO date, ULID, CUID, CUID2 or NanoID rule, identifyIDType(P_S) is
\* identifyIDType(S) whenever P_S as a whole matches none of rules 1 to 8
C15_UnderscoreSuffixKindKept ==
    (/\ pc = "identified"
     /\ HasPrefix(input, "_")
     /\ wholeSegmentRules(input) = << >>
     /\ LET S == After(input, "_")
        IN \/ uuidPattern(S)
           \/ isoDatePattern(S)
           \/ ulidPattern(S)
           \/ cuidPattern(S)
           \/ cuid2Pattern(S)
           \/ (ByteLen(S) = 21 /\ nanoidPattern(S)))
        => call.label = identifyIDType(After(input, "_"))

C15_Witness ==
    /\ pc = "identified"
    /\ input = <<"u", "s", "r", "_">> \o FixDate
    /\ call.label = labelISODate

\* C16: a segment P_D that rules 1 to 8 do not match, with P non-empty and
\* purely alphanumeric and D a non-empty run of ASCII digits, is numeric_id
\* when D has three digits or more and slug when it has one or two
C16_DigitThreshold ==
    (/\ pc = "identified"
     /\ HasPrefix(input, "_")
     /\ After(input, "_") # << >>
     /\ AllIn(After(input, "_"), Digit)
     /\ wholeSegmentRules(input) = << >>)
        => call.label = IF Len(After(input, "_")) >= 3
                        THEN labelNumericID
                        ELSE labelSlug

C16_Witness ==
    /\ pc = "identified"
    /\ input = <<"u", "s", "r", "_", "7", "7", "7">>
    /\ call.label = labelNumericID

\* C17, as the claim states it: a segment with a ':' at a position > 0 whose
\* colon rule yields no kind goes on to the Slug and Literal rules, with no
\* underscore-prefix extraction
C17_AsStated ==
    (/\ pc = "identified"
     /\ wholeSegmentRules(input) = << >>
     /\ Index(input, ":") > 0
     /\ colonPrefix(input).label = << >>)
        => call.label = slugRule(input)

\* C17: the underscore rule is applied to a segment with a ':' at a position
\* > 0 whose colon rule yields no kind: it is iso_date when the text after its
\* first '_', behind a non-empty purely alphanumeric prefix, is an ISO date,
\* and Literal otherwise
C17_UnderscoreAfterColon ==
    (/\ pc = "identified"
     /\ wholeSegmentRules(input) = << >>
     /\ Index(input, ":") > 0
     /\ colonPrefix(input).label = << >>)
        => call.label = IF /\ HasPrefix(input, "_")
                           /\ isoDatePattern(After(input, "_"))
                        THEN labelISODate
                        ELSE << >>

C17_Witness ==
    /\ pc = "identified"
    /\ input = <<"u", "s", "r", "_">> \o FixDate
                  \o <<"T", "0", "0", ":", "0", "1", ":", "5", "5">>
    /\ colonPrefix(input).label = << >>
    /\ call.label = labelISODate

\* C18: while a segment is classified, the nesting depth of the recursive
\* identifyIDType calls never exceeds 1
C18_DepthAtMostOne == pc = "identified" => call.depth <= 1

\* a segment of ASCII letters with the shape of a CUID2, a CUID or a ULID
WordShapedID(s) ==
    \/ Len(s) = 24 /\ AllIn(s, Lower)
    \/ Len(s) = 25 /\ s[1] = "c" /\ AllIn(s, Lower)
    \/ Len(s) = 26 /\ AllIn(s, (Lower \cup Upper) \ {"I", "O", "U", "i", "o", "u"})

\* the path /s of one segment s made only of ASCII letters
OneWordPath(p) ==
    /\ Len(p) >= 2
    /\ p[1] = "/"
    /\ AllIn(Tail(p), Lower \cup Upper)

C20_SegmentForSegment ==
    (pc = "extracted" /\ input # << >> /\ input # <<"/">>)
        => /\ Len(Pieces(group)) = Len(Pieces(input))
           /\ \A i \in 1..Len(Pieces(input)) :
                \/ Pieces(group)[i] = Pieces(input)[i]
                \/ Pieces(group)[i] \in Labels
           /\ group # << >>
           /\ group[1] = "/"
           /\ \A i \in 1..(Len(group) - 1) : ~(group[i] = "/" /\ group[i + 1] = "/")
           /\ group[Len(group)] = "/" => group = <<"/">>

C20_Witness ==
    /\ pc = "extracted"
    /\ input = <<"/", "a", "p", "i", "/", "/", "4", "2", "/">>
    /\ group = <<"/", "a", "p", "i", "/">> \o labelNumericID

\* C21: for every path, the group of add-path-header and the group of the
\* named-label plugin have the same number of segments, and every segment
\* that add-path-header replaces with "*" is replaced by its label, never
\* kept, in the named-label group
C21_LegacyIDsAreLabelled ==
    pc = "compared"
        => LET old == Pieces(legacyGroup)
               new == Pieces(group)
               pieces == Pieces(input)
           IN /\ Len(old) = Len(new)
              /\ Len(old) = Len(pieces)
              /\ \A i \in 1..Len(old) :
                    (old[i] = <<"*">> /\ pieces[i] # <<"*">>)
                        => /\ new[i] \in Labels
                           /\ new[i] # pieces[i]
                           /\ new[i] = identifyIDType(pieces[i])

C21_Witness ==
    /\ pc = "compared"
    /\ input = <<"/", "a", "p", "i", "/", "/", "u", "s", "e", "r", "_", "4", "2", "/">>
    /\ legacyGroup = <<"/", "a", "p", "i", "/", "*">>
    /\ group = <<"/", "a", "p", "i", "/">> \o labelSlug

====
